---- MODULE Spec2Model ----
(***************************************************************************)
(* Book repository: the collection reducer (bookReducer), the derived      *)
(* views (filteredBooks, currentBooks, totalPages) and the two variants of *)
(* the App component: the local-storage variant and the remote (axios)     *)
(* variant.                                                                *)
(*                                                                         *)
(* Text is a sequence of one-character strings, so that trim, toLowerCase, *)
(* includes, parseInt and toString are computed and not assumed.  A year   *)
(* is a JavaScript value: Num(n) for a number, Str(s) for a string (the    *)
(* edit form stores the input's text in the year field).                   *)
(***************************************************************************)
EXTENDS Integers, Sequences, FiniteSets, TLC

VARIABLES
    variant,      \* "local" | "remote": which App component runs
    books,        \* useReducer(bookReducer, []) : the Collection
    input,        \* useState({title, author, year}) : the add form
    editBook,     \* useState<Book | null>(null) : the edit form
    search,       \* useState('')
    currentPage,  \* useState(1)
    view,         \* the memoised values of the last render
    storedBooks,  \* useLocalStorage('books', []) (local variant)
    clock,        \* the value Date.now() returns, in milliseconds
    server,       \* the remote catalogue's records (remote variant)
    nextId,       \* the identifier the remote catalogue assigns next
    requests,     \* axios requests issued and not yet settled in the App
    nextRid,      \* number of requests issued so far
    trace         \* what the last step did: a dispatch, a logged error, ...

vars == <<variant, books, input, editBook, search, currentPage, view,
          storedBooks, clock, server, nextId, requests, nextRid, trace>>

----------------------------------------------------------------------------
(* Bounds of the model *)

\* SpecReducer: identifiers 1..MaxId, collections of at most MaxLen records,
\* SET_BOOKS payloads of at most MaxSetLen records.
MaxId == 2
MaxLen == 3
MaxSetLen == 2
\* SpecLocal and SpecRemote: the add form is used while the Collection holds
\* fewer than MaxBooks records.
MaxBooks == 2
\* SpecLocal: Date.now() returns 0..MaxClock.
MaxClock == 1
\* SpecRemote: at most MaxRequests requests are issued, the list request of
\* the mount included.
MaxRequests == 2
\* SpecView: catalogues of at most MaxCatalogue records.
MaxCatalogue == 12

----------------------------------------------------------------------------
(* JavaScript values and built-ins *)

Null == [null |-> TRUE]
Num(n) == [num |-> n]
Str(s) == [str |-> s]
IsNum(v) == DOMAIN v = {"num"}

Max(a, b) == IF a > b THEN a ELSE b
Min(a, b) == IF a < b THEN a ELSE b

Whitespace == {" "}
Digits == <<"0", "1", "2", "3", "4", "5", "6", "7", "8", "9">>

\* String.prototype.toLowerCase, on the letters the model uses.
LowerOf(c) ==
    CASE c = "A" -> "a"
      [] c = "E" -> "e"
      [] c = "M" -> "m"
      [] OTHER -> c

\* Mutant: the text is compared as typed.
toLowerCaseIdentity(s) == s

toLowerCase(s) == [i \in 1..Len(s) |-> LowerOf(s[i])]

\* String.prototype.includes: some position at which every character of
\* sub is found in s (the empty string is found at position 0).
includes(s, sub) ==
    \E k \in 0..(Len(s) - Len(sub)) :
        \A j \in 1..Len(sub) : s[k + j] = sub[j]

\* String.prototype.trim: drops leading and trailing white space.
RECURSIVE trimStart(_)
trimStart(s) ==
    IF s # <<>> /\ Head(s) \in Whitespace THEN trimStart(Tail(s)) ELSE s

RECURSIVE trimEnd(_)
trimEnd(s) ==
    IF s # <<>> /\ s[Len(s)] \in Whitespace
    THEN trimEnd(SubSeq(s, 1, Len(s) - 1))
    ELSE s

trim(s) == trimEnd(trimStart(s))

\* !s for a string s: only the empty string is falsy.
Falsy(s) == s = <<>>

DigitValue(c) == CHOOSE d \in 0..9 : Digits[d + 1] = c
IsDigit(c) == \E d \in 0..9 : Digits[d + 1] = c

\* parseInt(s): skips leading white space, then reads the longest prefix of
\* decimal digits.  The form's year is an <input type="number">, whose value
\* is "" or a number's text; the model enters unsigned digit strings only, so
\* the NaN result (no digit read) is not reached and is left out.
RECURSIVE parseDigits(_, _)
parseDigits(s, acc) ==
    IF s # <<>> /\ IsDigit(Head(s))
    THEN parseDigits(Tail(s), acc * 10 + DigitValue(Head(s)))
    ELSE acc

parseInt(s) == parseDigits(trimStart(s), 0)

\* Number.prototype.toString for a non-negative integer: its decimal digits.
RECURSIVE numberToString(_)
numberToString(n) ==
    IF n < 10 THEN <<Digits[n + 1]>>
    ELSE Append(numberToString(n \div 10), Digits[(n % 10) + 1])

\* book.year.toString(): a number's decimal text, a string as it is.
yearToString(y) == IF IsNum(y) THEN numberToString(y.num) ELSE y.str

\* Array.prototype.slice(start, end) on a sequence (0-based, end excluded).
slice(arr, start, end) ==
    LET len == Len(arr)
        k   == IF start < 0 THEN Max(len + start, 0) ELSE Min(start, len)
        fin == IF end < 0 THEN Max(len + end, 0) ELSE Min(end, len)
    IN  IF k >= fin THEN <<>> ELSE SubSeq(arr, k + 1, fin)

\* Mutant: one more than the whole quotient.
ceilDivFloorPlusOne(n, d) == (n \div d) + 1

\* Math.ceil(n / d) for integers n >= 0 and d > 0.
ceilDiv(n, d) == IF n % d = 0 THEN n \div d ELSE (n \div d) + 1

----------------------------------------------------------------------------
(* The Collection reducer *)

Book(id, title, author, year) ==
    [id |-> id, title |-> title, author |-> author, year |-> year]

AddBook(b) == [type |-> "ADD_BOOK", book |-> b]
UpdateBook(b) == [type |-> "UPDATE_BOOK", book |-> b]
DeleteBook(id) == [type |-> "DELETE_BOOK", id |-> id]
SetBooks(bs) == [type |-> "SET_BOOKS", books |-> bs]

\* Mutant: the new record is put in front.
addBookCasePrepend(state, action) == <<action.book>> \o state

\* case 'ADD_BOOK': return [...state, action.book]
addBookCase(state, action) == state \o <<action.book>>

\* Mutant: an update whose identifier is absent inserts the record.
updateBookCaseUpsert(state, action) ==
    IF \E i \in 1..Len(state) : state[i].id = action.book.id
    THEN [i \in 1..Len(state) |->
            IF state[i].id = action.book.id THEN action.book ELSE state[i]]
    ELSE Append(state, action.book)

\* case 'UPDATE_BOOK': return state.map(book => book.id === action.book.id ? action.book : book)
updateBookCase(state, action) ==
    [i \in 1..Len(state) |->
        IF state[i].id = action.book.id THEN action.book ELSE state[i]]

\* Mutant: only the first record with the identifier is removed.
deleteBookCaseFirst(state, action) ==
    LET hits == {i \in 1..Len(state) : state[i].id = action.id}
    IN  IF hits = {} THEN state
        ELSE LET k == CHOOSE i \in hits : \A j \in hits : i <= j
             IN  SubSeq(state, 1, k - 1) \o SubSeq(state, k + 1, Len(state))

\* case 'DELETE_BOOK': return state.filter(book => book.id !== action.id)
deleteBookCase(state, action) ==
    SelectSeq(state, LAMBDA book : book.id # action.id)

\* Mutant: the supplied records are merged into the prior Collection.
setBooksCaseMerge(state, action) == state \o action.books

\* case 'SET_BOOKS': return action.books
setBooksCase(state, action) == action.books

bookReducer(state, action) ==
    CASE action.type = "ADD_BOOK"    -> addBookCase(state, action)
      [] action.type = "UPDATE_BOOK" -> updateBookCase(state, action)
      [] action.type = "DELETE_BOOK" -> deleteBookCase(state, action)
      [] action.type = "SET_BOOKS"   -> setBooksCase(state, action)
      [] OTHER -> state

----------------------------------------------------------------------------
(* The derived views *)

booksPerPage == 5

\* Local-storage variant: the title contains the search text.
filteredBooksLocal(bs, q) ==
    SelectSeq(bs, LAMBDA book :
        includes(toLowerCase(book.title), toLowerCase(q)))

\* Remote variant: the title, the author or the year's text contains it.
filteredBooksRemote(bs, q) ==
    SelectSeq(bs, LAMBDA book :
        \/ includes(toLowerCase(book.title), toLowerCase(q))
        \/ includes(toLowerCase(book.author), toLowerCase(q))
        \/ includes(yearToString(book.year), q))

filteredBooks(v, bs, q) ==
    IF v = "local" THEN filteredBooksLocal(bs, q) ELSE filteredBooksRemote(bs, q)

\* Mutant: the page starts one record late.
currentBooksOffByOne(filtered, page) ==
    LET indexOfLastBook  == page * booksPerPage
        indexOfFirstBook == indexOfLastBook - booksPerPage + 1
    IN  slice(filtered, indexOfFirstBook, indexOfLastBook)

currentBooks(filtered, page) ==
    LET indexOfLastBook  == page * booksPerPage
        indexOfFirstBook == indexOfLastBook - booksPerPage
    IN  slice(filtered, indexOfFirstBook, indexOfLastBook)

totalPages(filtered) == ceilDiv(Len(filtered), booksPerPage)

\* One render of the component: the three memoised values.
Render(v, bs, q, page) ==
    LET f == filteredBooks(v, bs, q)
    IN  [filteredBooks |-> f,
         currentBooks  |-> currentBooks(f, page),
         totalPages    |-> totalPages(f)]

----------------------------------------------------------------------------
(* State shared by the specifications *)

EmptyInput == [title |-> <<>>, author |-> <<>>, year |-> <<>>]
NoTrace == [op |-> "none"]

SeqsUpTo(S, n) == UNION {[1..k -> S] : k \in 0..n}

\* The k-th smallest element of a finite set of integers.
KthSmallest(S, k) == CHOOSE i \in S : Cardinality({j \in S : j <= i}) = k

\* The state of a freshly constructed component of variant v that holds the
\* Collection bs and has nothing else going on.
Constructed(v, bs) ==
    /\ variant = v
    /\ books = bs
    /\ input = EmptyInput
    /\ editBook = Null
    /\ search = <<>>
    /\ currentPage = 1
    /\ view = Render(v, bs, <<>>, 1)
    /\ trace = NoTrace

----------------------------------------------------------------------------
(* SpecReducer: bookReducer applied once to a Collection and an action *)

ReducerBooks ==
    {Book(i, <<"E", "m">>, <<"a">>, Num(7)) : i \in 1..MaxId}
        \cup {Book(i, <<"m", "e">>, <<"A">>, Num(12)) : i \in 1..MaxId}

InitReducer ==
    /\ \E bs \in SeqsUpTo(ReducerBooks, MaxLen) : Constructed("local", bs)
    /\ storedBooks = <<>>
    /\ clock = 0
    /\ server = <<>>
    /\ nextId = 1
    /\ requests = <<>>
    /\ nextRid = 0

\* dispatch(action) of useReducer, with nothing else around it.
dispatch(action) ==
    /\ books' = bookReducer(books, action)
    /\ trace' = [op |-> "dispatch", action |-> action, before |-> books]
    /\ view' = Render(variant, books', search, currentPage)
    /\ UNCHANGED <<variant, input, editBook, search, currentPage, storedBooks,
                   clock, server, nextId, requests, nextRid>>

DispatchAddBook ==
    /\ trace.op = "none"
    /\ \E b \in ReducerBooks : dispatch(AddBook(b))

DispatchUpdateBook ==
    /\ trace.op = "none"
    /\ \E b \in ReducerBooks : dispatch(UpdateBook(b))

DispatchDeleteBook ==
    /\ trace.op = "none"
    /\ \E id \in 1..MaxId : dispatch(DeleteBook(id))

DispatchSetBooks ==
    /\ trace.op = "none"
    /\ \E bs \in SeqsUpTo(ReducerBooks, MaxSetLen) : dispatch(SetBooks(bs))

NextReducer ==
    \/ DispatchAddBook
    \/ DispatchUpdateBook
    \/ DispatchDeleteBook
    \/ DispatchSetBooks

SpecReducer == InitReducer /\ [][NextReducer]_vars

Dispatched(type) == trace.op = "dispatch" /\ trace.action.type = type
IdsOf(bs) == {bs[i].id : i \in 1..Len(bs)}

----------------------------------------------------------------------------
(* Handlers of the view state, the same in both variants *)

handleSearchChange(value) ==
    /\ search' = value
    /\ view' = Render(variant, books, search', currentPage)
    /\ trace' = [op |-> "search"]
    /\ UNCHANGED <<variant, books, input, editBook, currentPage, storedBooks,
                   clock, server, nextId, requests, nextRid>>

\* Mutant: Next also advances from the last page.
paginatePastLast(direction) ==
    /\ currentPage' =
          IF direction = "next" /\ currentPage <= view.totalPages
          THEN currentPage + 1
          ELSE IF direction = "prev" /\ currentPage > 1
               THEN currentPage - 1
               ELSE currentPage
    /\ view' = Render(variant, books, search, currentPage')
    /\ trace' = [op |-> "paginate", direction |-> direction,
                 before |-> currentPage]
    /\ UNCHANGED <<variant, books, input, editBook, search, storedBooks,
                   clock, server, nextId, requests, nextRid>>

\* paginate reads currentPage and totalPages of the last render.
paginate(direction) ==
    /\ currentPage' =
          IF direction = "next" /\ currentPage < view.totalPages
          THEN currentPage + 1
          ELSE IF direction = "prev" /\ currentPage > 1
               THEN currentPage - 1
               ELSE currentPage
    /\ view' = Render(variant, books, search, currentPage')
    /\ trace' = [op |-> "paginate", direction |-> direction,
                 before |-> currentPage]
    /\ UNCHANGED <<variant, books, input, editBook, search, storedBooks,
                   clock, server, nextId, requests, nextRid>>

----------------------------------------------------------------------------
(* Handlers of the forms, the same in both variants *)

\* What the user types into the add form and into the edit form: in the
\* local variant (v = "local") and in the remote one.
InputValues(v, name) ==
    CASE name = "title"  -> IF v = "local" THEN {<<" ">>, <<"E", "m">>}
                                           ELSE {<<"E", "m">>}
      [] name = "author" -> {<<"a">>}
      [] name = "year"   -> {<<"7">>}

EditValues(v, name) ==
    CASE name = "title"  -> IF v = "local" THEN {<<>>, <<"m", "e">>}
                                           ELSE {<<"m", "e">>}
      [] name = "author" -> IF v = "local" THEN {<<>>} ELSE {}
      [] name = "year"   -> {<<"8">>}

FieldNames == {"title", "author", "year"}

handleInputChange(name, value) ==
    /\ input' = [input EXCEPT ![name] = value]
    /\ trace' = [op |-> "ui"]
    /\ UNCHANGED <<variant, books, editBook, search, currentPage, view,
                   storedBooks, clock, server, nextId, requests, nextRid>>

\* if (!input.title.trim() || !input.author.trim() || !input.year.trim()) return;
addFormRejected ==
    \/ Falsy(trim(input.title))
    \/ Falsy(trim(input.author))
    \/ Falsy(trim(input.year))

\* The rows of the table: currentBooks.map(book => <tr>...</tr>).
Rows == {view.currentBooks[i] : i \in 1..Len(view.currentBooks)}

\* The Edit button of a row of the table: the rows are currentBooks.
handleEditButtonClick(book) ==
    /\ editBook' = book
    /\ trace' = [op |-> "ui"]
    /\ UNCHANGED <<variant, books, input, search, currentPage, view,
                   storedBooks, clock, server, nextId, requests, nextRid>>

\* setEditBook({ ...editBook, [name]: value }): value is the input's text,
\* also for the year.
handleEditBookChange(name, value) ==
    /\ editBook # Null
    /\ editBook' =
          [editBook EXCEPT ![name] = IF name = "year" THEN Str(value) ELSE value]
    /\ trace' = [op |-> "ui"]
    /\ UNCHANGED <<variant, books, input, search, currentPage, view,
                   storedBooks, clock, server, nextId, requests, nextRid>>

\* The Cancel button of the edit form: setEditBook(null).
cancelEdit ==
    /\ editBook # Null
    /\ editBook' = Null
    /\ trace' = [op |-> "ui"]
    /\ UNCHANGED <<variant, books, input, search, currentPage, view,
                   storedBooks, clock, server, nextId, requests, nextRid>>

----------------------------------------------------------------------------
(* SpecLocal: the local-storage variant *)

\* The setter of useLocalStorage: the stored value becomes the one given.
setStoredBooks(value) == value

\* useEffect(() => { setStoredBooks(books) }, [books, setStoredBooks])
saveEffect(bs) == setStoredBooks(bs)

\* useEffect(() => { if (storedBooks.length > 0) dispatch(SET_BOOKS) }, [storedBooks])
loadEffect(bs, stored) ==
    IF Len(stored) > 0 THEN bookReducer(bs, SetBooks(stored)) ELSE bs

\* A handler's dispatch followed by the two effects it sets off: the save
\* effect stores the new Collection, the load effect then sets it again.
dispatchLocal(action) ==
    LET reduced == bookReducer(books, action)
    IN  /\ storedBooks' = saveEffect(reduced)
        /\ books' = loadEffect(reduced, storedBooks')
        /\ trace' = [op |-> "dispatch", action |-> action]

handleAddBookLocal ==
    /\ Len(books) < MaxBooks
    /\ IF addFormRejected
       THEN /\ trace' = [op |-> "rejected"]
            /\ UNCHANGED <<books, input, storedBooks, view>>
       ELSE LET newBook == Book(clock, input.title, input.author,
                                Num(parseInt(input.year)))
            IN  /\ dispatchLocal(AddBook(newBook))
                /\ input' = EmptyInput
                /\ view' = Render(variant, books', search, currentPage)
    /\ UNCHANGED <<variant, editBook, search, currentPage, clock, server,
                   nextId, requests, nextRid>>

\* The Delete button of a row of the table.
handleDeleteBookLocal(id) ==
    /\ dispatchLocal(DeleteBook(id))
    /\ view' = Render(variant, books', search, currentPage)
    /\ UNCHANGED <<variant, input, editBook, search, currentPage, clock,
                   server, nextId, requests, nextRid>>

\* The Update button of the edit form, shown while editBook is set.
handleUpdateBookLocal ==
    /\ editBook # Null
    /\ dispatchLocal(UpdateBook(editBook))
    /\ editBook' = Null
    /\ view' = Render(variant, books', search, currentPage)
    /\ UNCHANGED <<variant, input, search, currentPage, clock, server,
                   nextId, requests, nextRid>>

\* Time passes: Date.now() returns a later millisecond.
tick ==
    /\ clock < MaxClock
    /\ clock' = clock + 1
    /\ UNCHANGED <<variant, books, input, editBook, search, currentPage, view,
                   storedBooks, server, nextId, requests, nextRid, trace>>

\* The page is loaded again: the component is constructed with an empty
\* Collection and the stored one, and its effects run until nothing changes
\* (load: SET_BOOKS of the stored Collection; save: the Collection stored).
mountLocal ==
    LET loaded == loadEffect(<<>>, storedBooks)
    IN  /\ books' = loaded
        /\ storedBooks' = saveEffect(loaded)
        /\ input' = EmptyInput
        /\ editBook' = Null
        /\ search' = <<>>
        /\ currentPage' = 1
        /\ view' = Render(variant, books', search', currentPage')
        /\ trace' = [op |-> "mount"]
        /\ UNCHANGED <<variant, clock, server, nextId, requests, nextRid>>

LocalSearches == {<<>>, <<"e">>}

InitLocal ==
    /\ Constructed("local", <<>>)
    /\ storedBooks = <<>>
    /\ clock = 0
    /\ server = <<>>
    /\ nextId = 1
    /\ requests = <<>>
    /\ nextRid = 0

NextLocal ==
    \/ \E name \in FieldNames : \E value \in InputValues(variant, name) :
          handleInputChange(name, value)
    \/ handleAddBookLocal
    \/ \E book \in Rows : handleDeleteBookLocal(book.id)
    \/ \E book \in Rows : handleEditButtonClick(book)
    \/ \E name \in FieldNames : \E value \in EditValues(variant, name) :
          handleEditBookChange(name, value)
    \/ handleUpdateBookLocal
    \/ cancelEdit
    \/ \E q \in LocalSearches : handleSearchChange(q)
    \/ \E d \in {"next", "prev"} : paginate(d)
    \/ tick
    \/ mountLocal

SpecLocal == InitLocal /\ [][NextLocal]_vars

----------------------------------------------------------------------------
(* SpecRemote: the remote variant *)

\* An axios request: "sent" until the catalogue service answers it, then "ok"
\* with the response's data or "failed", and "settled" once its then- or
\* catch-callback has run.  requests[k] is the k-th request issued.
Request(kind, id, body) ==
    [kind |-> kind, id |-> id, body |-> body, status |-> "sent", data |-> Null]

Sent == {k \in 1..Len(requests) : requests[k].status = "sent"}
Fulfilled(kind) ==
    {k \in 1..Len(requests) :
        requests[k].kind = kind /\ requests[k].status = "ok"}
Rejected(kind) ==
    {k \in 1..Len(requests) :
        requests[k].kind = kind /\ requests[k].status = "failed"}

\* axios.get / post / put / delete: one more request in flight.
issue(kind, id, body) ==
    /\ nextRid < MaxRequests
    /\ requests' = Append(requests, Request(kind, id, body))
    /\ nextRid' = nextRid + 1

\* dispatch(action) in a then-callback, and the render that follows.
dispatchRemote(action) ==
    /\ books' = bookReducer(books, action)
    /\ trace' = [op |-> "dispatch", action |-> action]
    /\ view' = Render(variant, books', search, currentPage)

\* console.error(...) in a catch-callback: nothing else happens.
logError(k) ==
    /\ trace' = [op |-> "error", rid |-> k, kind |-> requests[k].kind]
    /\ UNCHANGED <<books, view>>

\* The promise of request k is settled: its callback has run, and nothing
\* refers to its payload any more.  outcome tells which callback ran: "ok"
\* for the then-callback, "failed" for the catch-callback.
settle(k) ==
    requests' = [requests EXCEPT ![k] =
                    [kind |-> requests[k].kind, status |-> "settled",
                     outcome |-> requests[k].status]]

respond(k, status, data) ==
    requests' = [requests EXCEPT ![k].status = status, ![k].data = data]

ServerIds == {server[i].id : i \in 1..Len(server)}

\* The catalogue service answers a list request.
serveList(k) ==
    /\ respond(k, "ok", server)
    /\ UNCHANGED <<server, nextId>>

\* The catalogue service creates a record and assigns its identifier.
serveCreate(k) ==
    LET body    == requests[k].body
        created == Book(nextId, body.title, body.author, body.year)
    IN  /\ server' = Append(server, created)
        /\ nextId' = nextId + 1
        /\ respond(k, "ok", created)

\* The catalogue service updates the record with the identifier, or answers
\* with an error when it has none.
serveUpdate(k) ==
    LET id      == requests[k].id
        body    == requests[k].body
        updated == Book(id, body.title, body.author, body.year)
    IN  IF id \in ServerIds
        THEN /\ server' = [i \in 1..Len(server) |->
                              IF server[i].id = id THEN updated ELSE server[i]]
             /\ respond(k, "ok", updated)
             /\ UNCHANGED nextId
        ELSE /\ respond(k, "failed", Null)
             /\ UNCHANGED <<server, nextId>>

\* The catalogue service deletes the record with the identifier, or answers
\* with an error when it has none.
serveDelete(k) ==
    IF requests[k].id \in ServerIds
    THEN /\ server' = SelectSeq(server, LAMBDA b : b.id # requests[k].id)
         /\ respond(k, "ok", Null)
         /\ UNCHANGED nextId
    ELSE /\ respond(k, "failed", Null)
         /\ UNCHANGED <<server, nextId>>

\* The catalogue service handles one request that is in flight; requests
\* travel on their own connections, so it may handle them in any order.
serverHandles ==
    /\ \E k \in Sent :
          CASE requests[k].kind = "get"    -> serveList(k)
            [] requests[k].kind = "post"   -> serveCreate(k)
            [] requests[k].kind = "put"    -> serveUpdate(k)
            [] requests[k].kind = "delete" -> serveDelete(k)
    /\ UNCHANGED <<variant, books, input, editBook, search, currentPage, view,
                   storedBooks, clock, nextRid, trace>>

\* A request fails on the way (network error, error status): the catalogue
\* is not changed by it.
requestFails ==
    /\ \E k \in Sent : respond(k, "failed", Null)
    /\ UNCHANGED <<variant, books, input, editBook, search, currentPage, view,
                   storedBooks, clock, server, nextId, nextRid, trace>>

\* axios.get(...).then(response => dispatch({ type: 'SET_BOOKS', books: response.data }))
getFulfilled ==
    /\ \E k \in Fulfilled("get") :
          dispatchRemote(SetBooks(requests[k].data)) /\ settle(k)
    /\ UNCHANGED <<variant, input, editBook, search, currentPage, storedBooks,
                   clock, server, nextId, nextRid>>

getRejected ==
    /\ \E k \in Rejected("get") : logError(k) /\ settle(k)
    /\ UNCHANGED <<variant, input, editBook, search, currentPage, storedBooks,
                   clock, server, nextId, nextRid>>

handleAddBookRemote ==
    /\ Len(books) < MaxBooks
    /\ IF addFormRejected
       THEN /\ trace' = [op |-> "rejected"]
            /\ UNCHANGED <<input, requests, nextRid>>
       ELSE LET newBook == [title  |-> input.title,
                            author |-> input.author,
                            year   |-> Num(parseInt(input.year))]
            IN  /\ issue("post", Null, newBook)
                /\ input' = EmptyInput
                /\ trace' = [op |-> "request", kind |-> "post"]
    /\ UNCHANGED <<variant, books, editBook, search, currentPage, view,
                   storedBooks, clock, server, nextId>>

\* .then(response => dispatch({ type: 'ADD_BOOK', book: response.data }))
postFulfilled ==
    /\ \E k \in Fulfilled("post") :
          dispatchRemote(AddBook(requests[k].data)) /\ settle(k)
    /\ UNCHANGED <<variant, input, editBook, search, currentPage, storedBooks,
                   clock, server, nextId, nextRid>>

postRejected ==
    /\ \E k \in Rejected("post") : logError(k) /\ settle(k)
    /\ UNCHANGED <<variant, input, editBook, search, currentPage, storedBooks,
                   clock, server, nextId, nextRid>>

\* The Delete button of a row of the table.
handleDeleteBookRemote(id) ==
    /\ issue("delete", id, Null)
    /\ trace' = [op |-> "request", kind |-> "delete"]
    /\ UNCHANGED <<variant, books, input, editBook, search, currentPage, view,
                   storedBooks, clock, server, nextId>>

\* .then(() => dispatch({ type: 'DELETE_BOOK', id }))
deleteFulfilled ==
    /\ \E k \in Fulfilled("delete") :
          dispatchRemote(DeleteBook(requests[k].id)) /\ settle(k)
    /\ UNCHANGED <<variant, input, editBook, search, currentPage, storedBooks,
                   clock, server, nextId, nextRid>>

\* Mutant: the record is removed from the Collection although the request
\* failed.
deleteRejectedRemoves ==
    /\ \E k \in Rejected("delete") :
          /\ books' = bookReducer(books, DeleteBook(requests[k].id))
          /\ view' = Render(variant, books', search, currentPage)
          /\ trace' = [op |-> "error", rid |-> k, kind |-> requests[k].kind]
          /\ settle(k)
    /\ UNCHANGED <<variant, input, editBook, search, currentPage, storedBooks,
                   clock, server, nextId, nextRid>>

deleteRejected ==
    /\ \E k \in Rejected("delete") : logError(k) /\ settle(k)
    /\ UNCHANGED <<variant, input, editBook, search, currentPage, storedBooks,
                   clock, server, nextId, nextRid>>

\* The Update button of the edit form, shown while editBook is set; the form
\* stays open until the response arrives.
handleUpdateBookRemote ==
    /\ editBook # Null
    /\ issue("put", editBook.id, editBook)
    /\ trace' = [op |-> "request", kind |-> "put"]
    /\ UNCHANGED <<variant, books, input, editBook, search, currentPage, view,
                   storedBooks, clock, server, nextId>>

\* .then(response => { dispatch({ type: 'UPDATE_BOOK', book: response.data }); setEditBook(null) })
putFulfilled ==
    /\ \E k \in Fulfilled("put") :
          dispatchRemote(UpdateBook(requests[k].data)) /\ settle(k)
    /\ editBook' = Null
    /\ UNCHANGED <<variant, input, search, currentPage, storedBooks, clock,
                   server, nextId, nextRid>>

putRejected ==
    /\ \E k \in Rejected("put") : logError(k) /\ settle(k)
    /\ UNCHANGED <<variant, input, editBook, search, currentPage, storedBooks,
                   clock, server, nextId, nextRid>>

\* What the catalogue service holds when the page is opened.
ServerCatalogues == {<<>>, <<Book(1, <<"m", "e">>, <<"A">>, Num(12))>>}

RemoteSearches == {<<"e">>}

\* The component is constructed and its mount effect has issued the list
\* request.
InitRemote ==
    /\ Constructed("remote", <<>>)
    /\ storedBooks = <<>>
    /\ clock = 0
    /\ server \in ServerCatalogues
    /\ nextId = Len(server) + 1
    /\ requests = <<Request("get", Null, Null)>>
    /\ nextRid = 1

NextRemote ==
    \/ \E name \in FieldNames : \E value \in InputValues(variant, name) :
          handleInputChange(name, value)
    \/ handleAddBookRemote
    \/ \E book \in Rows : handleDeleteBookRemote(book.id)
    \/ \E book \in Rows : handleEditButtonClick(book)
    \/ \E name \in FieldNames : \E value \in EditValues(variant, name) :
          handleEditBookChange(name, value)
    \/ handleUpdateBookRemote
    \/ cancelEdit
    \/ \E q \in RemoteSearches : handleSearchChange(q)
    \/ \E d \in {"next", "prev"} : paginate(d)
    \/ serverHandles
    \/ requestFails
    \/ getFulfilled
    \/ getRejected
    \/ postFulfilled
    \/ postRejected
    \/ deleteFulfilled
    \/ deleteRejected
    \/ putFulfilled
    \/ putRejected

SpecRemote == InitRemote /\ [][NextRemote]_vars

----------------------------------------------------------------------------
(* SpecView: search and pagination over a catalogue that is already loaded *)

SampleFields ==
    << [title |-> <<"E", "m">>, author |-> <<"a">>,      year |-> Num(7)],
       [title |-> <<"m", "e">>, author |-> <<"A">>,      year |-> Num(12)],
       [title |-> <<"M">>,      author |-> <<"M", "e">>, year |-> Num(71)],
       [title |-> <<"a">>,      author |-> <<"m">>,      year |-> Num(20)] >>

\* n records with identifiers 1..n; record i takes the sample at stride m
\* from offset k.
Catalogue(n, m, k) ==
    [i \in 1..n |->
        LET f == SampleFields[((i * m + k) % Len(SampleFields)) + 1]
        IN  Book(i, f.title, f.author, f.year)]

Catalogues ==
    {Catalogue(n, m, k) :
        n \in 0..MaxCatalogue, m \in 0..1, k \in 0..(Len(SampleFields) - 1)}

ViewSearches == {<<>>, <<"e">>, <<"E", "M">>, <<"a">>, <<"7">>, <<"x">>}

InitView ==
    /\ \E v \in {"local", "remote"} :
          \E bs \in Catalogues : Constructed(v, bs)
    /\ storedBooks = IF variant = "local" THEN books ELSE <<>>
    /\ clock = 0
    /\ server = IF variant = "remote" THEN books ELSE <<>>
    /\ nextId = Len(books) + 1
    /\ requests = <<>>
    /\ nextRid = 0

NextView ==
    \/ \E q \in ViewSearches : handleSearchChange(q)
    \/ \E d \in {"next", "prev"} : paginate(d)

SpecView == InitView /\ [][NextView]_vars

----------------------------------------------------------------------------
(* Claims about the reducer, under SpecReducer *)

\* C1: Insert.  After ADD_BOOK of a Record r whose identifier is not in the
\* Collection C, the result has length len(C)+1, its last element is r and
\* its first len(C) elements are those of C in the same order.
C1_InsertAppends ==
    (Dispatched("ADD_BOOK") /\ trace.action.book.id \notin IdsOf(trace.before))
        => /\ Len(books) = Len(trace.before) + 1
           /\ books[Len(books)] = trace.action.book
           /\ \A i \in 1..Len(trace.before) : books[i] = trace.before[i]

C1_Witness ==
    /\ Dispatched("ADD_BOOK")
    /\ trace.action.book.id \notin IdsOf(trace.before)
    /\ Len(trace.before) >= 2
    /\ trace.before[1] # trace.action.book

\* C2: Replace.  After UPDATE_BOOK of r the result has the length of C; each
\* position that held a Record with r's identifier holds r, every other
\* position holds what it held; with no such Record the result equals C.
C2_ReplaceInPlace ==
    Dispatched("UPDATE_BOOK")
        => LET r == trace.action.book
               C == trace.before
           IN  /\ Len(books) = Len(C)
               /\ \A i \in 1..Len(C) :
                     books[i] = IF C[i].id = r.id THEN r ELSE C[i]
               /\ (r.id \notin IdsOf(C)) => books = C

C2_Witness ==
    /\ Dispatched("UPDATE_BOOK")
    /\ \E i, j \in 1..Len(trace.before) :
          /\ trace.before[i].id = trace.action.book.id
          /\ trace.before[i] # trace.action.book
          /\ trace.before[j].id # trace.action.book.id
          /\ books[i] = trace.action.book

C2_WitnessNoMatch ==
    /\ Dispatched("UPDATE_BOOK")
    /\ trace.before # <<>>
    /\ trace.action.book.id \notin IdsOf(trace.before)

\* C3: Remove.  After DELETE_BOOK of id the result holds no Record with that
\* identifier, holds every other Record of C in the same relative order, and
\* is no longer than C; with no such Record the result equals C.
C3_RemoveAllMatching ==
    Dispatched("DELETE_BOOK")
        => LET id   == trace.action.id
               C    == trace.before
               keep == {i \in 1..Len(C) : C[i].id # id}
           IN  /\ id \notin IdsOf(books)
               /\ Len(books) = Cardinality(keep)
               /\ \A k \in 1..Len(books) : books[k] = C[KthSmallest(keep, k)]
               /\ Len(books) <= Len(C)
               /\ (id \notin IdsOf(C)) => books = C

C3_Witness ==
    /\ Dispatched("DELETE_BOOK")
    /\ Len(trace.before) = 3
    /\ trace.before[2].id = trace.action.id
    /\ trace.before[1].id # trace.action.id
    /\ trace.before[3].id # trace.action.id
    /\ trace.before[1] # trace.before[3]
    /\ Len(books) = 2

\* C4: Reset.  After SET_BOOKS of C2 the result equals C2 exactly, whatever
\* the prior Collection was; nothing of it is merged in.
C4_ResetReplaces ==
    Dispatched("SET_BOOKS")
        => /\ Len(books) = Len(trace.action.books)
           /\ \A i \in 1..Len(books) : books[i] = trace.action.books[i]

C4_Witness ==
    /\ Dispatched("SET_BOOKS")
    /\ trace.before # <<>>
    /\ trace.action.books # <<>>
    /\ IdsOf(trace.before) \cap IdsOf(trace.action.books) = {}
    /\ books = trace.action.books

----------------------------------------------------------------------------
(* Claims about the derived views, under SpecView *)

CasePairs == {<<"A", "a">>, <<"E", "e">>, <<"M", "m">>}
SameLetter(c, d) == c = d \/ <<c, d>> \in CasePairs \/ <<d, c>> \in CasePairs

\* text contains q as a substring, letters compared without regard to case.
ContainsIgnoringCase(text, q) ==
    \E k \in 0..(Len(text) - Len(q)) :
        \A j \in 1..Len(q) : SameLetter(text[k + j], q[j])

\* The decimal text of a number below 100: the digit string without a leading
\* zero whose value it is.
DecimalText(n) ==
    CHOOSE d \in SeqsUpTo(0..9, 2) :
        /\ d # <<>>
        /\ (Len(d) = 2 => d[1] # 0)
        /\ n = (IF Len(d) = 1 THEN d[1] ELSE 10 * d[1] + d[2])

\* The year's decimal text contains q.
YearContains(n, q) ==
    LET d == DecimalText(n)
    IN  \E k \in 0..(Len(d) - Len(q)) :
            \A j \in 1..Len(q) : Digits[d[k + j] + 1] = q[j]

Matches(v, book, q) ==
    \/ ContainsIgnoringCase(book.title, q)
    \/ /\ v = "remote"
       /\ \/ ContainsIgnoringCase(book.author, q)
          \/ YearContains(book.year.num, q)

\* C8: Filter.  The filtered sequence holds, in Collection order and each
\* once, exactly the Records whose title contains the search text without
\* regard to case (remote variant: title or author, or the year's decimal
\* text); with empty search text it is the whole Collection.
C8_FilterExact ==
    LET F   == view.filteredBooks
        idx == {i \in 1..Len(books) : Matches(variant, books[i], search)}
    IN  /\ Len(F) = Cardinality(idx)
        /\ \A k \in 1..Len(F) : F[k] = books[KthSmallest(idx, k)]
        /\ (search = <<>>) => F = books

C8_Witness ==
    /\ trace.op = "search"
    /\ search = <<"E", "M">>
    /\ Len(view.filteredBooks) >= 2
    /\ Len(view.filteredBooks) < Len(books)
    /\ \E i \in 1..Len(books) : books[i].title = <<"m", "e">>
    /\ \E k \in 1..Len(view.filteredBooks) :
          view.filteredBooks[k].title = <<"E", "m">>

\* C9: Page slice.  With n filtered Records, page p >= 1 and page size s, the
\* slice is the contiguous run of the filtered sequence at 0-based indices
\* [(p-1)*s, min(p*s, n)): it has min(s, max(0, n-(p-1)*s)) elements and is
\* empty when (p-1)*s >= n; with s = 5, n = 12, p = 3 it has 2 elements.
C9_PageSlice ==
    LET F  == view.filteredBooks
        n  == Len(F)
        s  == booksPerPage
        lo == (currentPage - 1) * s
        hi == Min(currentPage * s, n)
        P  == view.currentBooks
    IN  /\ currentPage >= 1
        /\ Len(P) = Min(s, Max(0, n - lo))
        /\ \A k \in 1..Len(P) : lo + k <= hi /\ P[k] = F[lo + k]
        /\ (lo >= n) => P = <<>>
        /\ (n = 12 /\ currentPage = 3) => Len(P) = 2

C9_Witness ==
    /\ trace.op = "paginate"
    /\ Len(view.filteredBooks) = 12
    /\ currentPage = 3
    /\ Len(view.currentBooks) = 2
    /\ view.currentBooks[1].id = 11

C9_WitnessPastTheEnd ==
    /\ trace.op = "search"
    /\ currentPage = 3
    /\ Len(view.filteredBooks) \in 1..5
    /\ view.currentBooks = <<>>

\* C10: Page count.  With n filtered Records and page size s = 5 the page
\* count is the least integer k with k*s >= n: 0 when n = 0, 3 when n = 12.
C10_PageCount ==
    LET n == Len(view.filteredBooks)
        k == view.totalPages
    IN  /\ k >= 0
        /\ k * booksPerPage >= n
        /\ \A j \in 0..(k - 1) : j * booksPerPage < n
        /\ (n = 0) => k = 0
        /\ (n = 12) => k = 3

C10_Witness ==
    /\ trace.op = "search"
    /\ Len(books) = 12
    /\ Len(view.filteredBooks) = 6
    /\ view.totalPages = 2

----------------------------------------------------------------------------
(* Claims about the App component *)

\* C5: Identifier uniqueness.  In every state reached from the empty
\* Collection through the application's own dispatches, no two Records of
\* the Collection have the same identifier.
C5_UniqueIdentifiers ==
    \A i, j \in 1..Len(books) : books[i].id = books[j].id => i = j

NonBlank(text) == \E i \in 1..Len(text) : text[i] \notin Whitespace

\* C6: Malformed input is rejected.  No ADD_BOOK or UPDATE_BOOK whose Record
\* has an empty or white-space-only title or author reaches the reducer, so
\* every Record of the Collection has a non-empty title and author.
C6_MalformedInputRejected ==
    /\ (Dispatched("ADD_BOOK") \/ Dispatched("UPDATE_BOOK"))
          => /\ NonBlank(trace.action.book.title)
             /\ NonBlank(trace.action.book.author)
    /\ \A i \in 1..Len(books) :
          NonBlank(books[i].title) /\ NonBlank(books[i].author)

\* C7: Collaborator failure.  In the remote variant, a step that issues a
\* request and a step in which a request's failure is handled (its error is
\* logged) both leave the Collection as it was; handling the failure
\* dispatches nothing and issues no request again.
C7_FailureLeavesCollection ==
    [][ /\ (trace'.op = "error" /\ trace' # trace)
            => /\ books' = books
               /\ nextRid' = nextRid
               /\ Len(requests') = Len(requests)
               /\ requests'[trace'.rid].status = "settled"
               /\ requests[trace'.rid].status = "failed"
        /\ (nextRid' # nextRid) => books' = books ]_vars

C7_Witness ==
    /\ variant = "remote"
    /\ trace.op = "error"
    /\ trace.kind = "delete"
    /\ books # <<>>
    /\ books = server
    /\ requests[trace.rid].status = "settled"

C7_WitnessListFailed ==
    /\ variant = "remote"
    /\ trace.op = "error"
    /\ trace.kind = "get"
    /\ books = <<>>
    /\ server # <<>>

----------------------------------------------------------------------------
(* Claims about pagination and about the remote catalogue *)

\* C11: Pagination navigation.  Next changes the page number to page+1
\* exactly when page < pageCount and otherwise leaves it unchanged; Prev
\* changes it to page-1 exactly when page > 1 and otherwise leaves it
\* unchanged; neither changes the Collection or the search text, and the
\* page number never drops below 1.
C11_PaginateWithinBounds ==
    [][ (trace'.op = "paginate")
            => /\ trace'.before = currentPage
               /\ (trace'.direction = "next")
                     => currentPage' = IF currentPage < view.totalPages
                                       THEN currentPage + 1
                                       ELSE currentPage
               /\ (trace'.direction = "prev")
                     => currentPage' = IF currentPage > 1
                                       THEN currentPage - 1
                                       ELSE currentPage
               /\ currentPage' >= 1
               /\ books' = books
               /\ search' = search
               /\ view'.totalPages = view.totalPages ]_vars

\* Next at the last page of three is a no-op.
C11_Witness ==
    /\ trace.op = "paginate"
    /\ trace.direction = "next"
    /\ trace.before = 3
    /\ currentPage = 3
    /\ view.totalPages = 3

C11_WitnessPrevAtFirst ==
    /\ trace.op = "paginate"
    /\ trace.direction = "prev"
    /\ trace.before = 1
    /\ currentPage = 1
    /\ view.totalPages >= 2

C11_WitnessMoves ==
    /\ trace.op = "paginate"
    /\ trace.direction = "prev"
    /\ trace.before = 3
    /\ currentPage = 2

\* C12: The current page always designates an existing page: in every
\* reachable state the page number p satisfies 1 <= p <= max(1, pageCount),
\* so the displayed page slice is empty only when the filtered sequence
\* itself is empty.
C12_PageExists ==
    /\ currentPage >= 1
    /\ currentPage <= Max(1, totalPages(filteredBooks(variant, books, search)))
    /\ (currentBooks(filteredBooks(variant, books, search), currentPage) = <<>>)
          => (filteredBooks(variant, books, search) = <<>>)

\* Every request issued so far has completed successfully and its
\* then-callback has run: nothing is in flight.
AllRequestsSucceeded ==
    \A k \in 1..Len(requests) :
        /\ requests[k].status = "settled"
        /\ requests[k].outcome = "ok"

\* The Collection holds exactly the records of the catalogue service, each
\* exactly once.
SameRecords(bs, catalogue) ==
    /\ Len(bs) = Len(catalogue)
    /\ \A i \in 1..Len(catalogue) :
          Cardinality({j \in 1..Len(bs) : bs[j] = catalogue[i]}) = 1
    /\ \A j \in 1..Len(bs) :
          \E i \in 1..Len(catalogue) : catalogue[i] = bs[j]

\* C13: The remote variant converges to the server's catalogue: with the
\* responses of the list, create, update and delete requests delivered in
\* any order, once every request has completed successfully the Collection
\* holds exactly the server's Records, the same identifiers, each exactly
\* once, each with the server's field values.
C13_ConvergesToServer ==
    (variant = "remote" /\ AllRequestsSucceeded) => SameRecords(books, server)

====
